---- MODULE Spec2Model ----
(***************************************************************************)
(* Verification model of the linkmarket marketplace: the wholesaler server *)
(* actions (batch order-status update, e-mail / business-info /           *)
(* notification-preference updates), the dashboard GET routes, the         *)
(* anonymous-code trigger, the profiles.role CHECK constraint, the         *)
(* order-notification queries, the retailer cart store, the sign-in form   *)
(* wrapper and the wholesaler notification hook.                           *)
(*                                                                         *)
(* The module holds one specification per subsystem.  A specification     *)
(* moves the variables of its own subsystem and leaves the variables of    *)
(* the other subsystems at their initial values.                           *)
(***************************************************************************)
EXTENDS Integers, Sequences, FiniteSets, TLC

VARIABLES
    \* ---- server actions (actions/wholesaler/*.ts) ----
    pc,            \* position of the server action in progress
    call,          \* which server action is in progress / has returned
    orderIds,      \* batchUpdateOrderStatus: the orderIds argument
    status,        \* batchUpdateOrderStatus: the status argument
    idx,           \* batchUpdateOrderStatus: position of the for-of iterator
    successCount,  \* batchUpdateOrderStatus: let successCount
    failureCount,  \* batchUpdateOrderStatus: let failureCount
    errors,        \* batchUpdateOrderStatus: const errors
    attempts,      \* history: the update calls issued by the current call
    env,           \* history: what the collaborators answered in the call
    result,        \* what the server action handed to its caller
    orderStatus,   \* table orders: id -> status
    profileEmail,  \* table profiles: email of the signed-in user
    wholesalerRow, \* table wholesalers: row of the signed-in wholesaler
    preferences,   \* table wholesalers: notification_preferences
    \* ---- dashboard routes (app/api/wholesaler/dashboard/*/route.ts) ----
    nodeEnv,       \* process.env.NODE_ENV of the server process
    responses,     \* route -> the response of its latest GET
    \* ---- anonymous-code trigger (generate_anonymous_code) ----
    wholesalers,   \* committed rows of public.wholesalers
    txn,           \* the inserting transactions: position and new row
    lockHolder,    \* holder of advisory lock 123456, or "none"
    \* ---- profiles.role (chk_profiles_role) ----
    profiles,      \* rows of public.profiles: id -> role, or "absent"
    roleNotNull,   \* column role carries NOT NULL
    roleCheck,     \* constraint chk_profiles_role: "none", "old" or "new"
    migrated,      \* how often the role migration has been applied
    lastWrite,     \* history: the latest INSERT / UPDATE and its fate
    \* ---- order notifications (lib/supabase/queries/notifications.ts) ----
    orders,        \* rows of public.orders: id -> row, or NoOrder
    clock,         \* the time new Date() reads
    queryResult,   \* what the latest notification query handed back
    \* ---- retailer cart (stores/cart-store.ts) ----
    items,         \* CartStore.items
    summary,       \* what the latest getSummary() returned
    lastCartOp,    \* history: the latest cart action and its input
    \* ---- SignInWithRedirect (components/auth/sign-in-with-redirect.tsx) ----
    dom,           \* the elements inside containerRef, in document order
    hasRedirectedRef, \* hasRedirectedRef.current
    location,      \* the page the router shows
    mounted,       \* the effect is set up and not yet cleaned up
    observerPending, \* a mutation is waiting for the observer callback
    \* ---- useWholesalerNotifications (hooks/use-wholesaler-notifications.ts) ----
    wholesalerId,  \* wholesaler?.id ?? null
    hookMounted,   \* the component using the hook is mounted
    subscription,  \* the wholesaler whose new orders are subscribed to
    pendingEvents, \* new-order events sent to the subscription, not yet run
    queries,       \* the two queries: data, isInvalidated, fetch in flight
    mutation       \* markAsReadMutation: idle, pending, success or error

actionVars == <<pc, call, orderIds, status, idx, successCount, failureCount,
                errors, attempts, env, result, orderStatus, profileEmail,
                wholesalerRow, preferences>>

routeVars == <<nodeEnv, responses>>

codeVars == <<wholesalers, txn, lockHolder>>

roleVars == <<profiles, roleNotNull, roleCheck, migrated, lastWrite>>

notifVars == <<orders, clock, queryResult>>

cartVars == <<items, summary, lastCartOp>>

signVars == <<dom, hasRedirectedRef, location, mounted, observerPending>>

hookVars == <<wholesalerId, hookMounted, subscription, pendingEvents, queries,
              mutation>>

vars == <<actionVars, routeVars, codeVars, roleVars, notifVars, cartVars, signVars, hookVars>>

----------------------------------------------------------------------------
(* Bounds *)

MaxOrderIds == 3       \* longest orderIds list handed to the batch action
MaxWholesalers == 3    \* most rows of public.wholesalers
MaxMigrationRuns == 2  \* how often the role migration is run
MaxClock == 2          \* latest time the clock reaches
MaxQuantity == 3       \* largest quantity of one cart line

(* Small value sets the inputs are drawn from *)

OrderIdSet == {"o1", "o2"}
OrderStatuses == {"pending", "confirmed"}

\* What a rejected promise / a throw carries: an Error with a message, or a
\* value that is not an Error.
ThrownValues == { [isError |-> TRUE,  message |-> "E_DEPENDENCY"],
                  [isError |-> FALSE, message |-> ""] }

SeqsUpTo(S, n) == UNION { [1..k -> S] : k \in 0..n }

NoEnv == [kind |-> "none"]
NoResult == [kind |-> "none"]

----------------------------------------------------------------------------
(* batchUpdateOrderStatus *)

\* error instanceof Error ? error.message : fallback
ErrorMessage(thrown, fallback) ==
    IF thrown.isError THEN thrown.message ELSE fallback

\* The early return for an empty list.
EmptyListResult ==
    [kind |-> "returned", success |-> FALSE, successCount |-> 0,
     failureCount |-> 0, errorsDefined |-> TRUE,
     errors |-> <<[orderId |-> "", error |-> "ERR_NO_ORDER_SELECTED"]>>]

\* The return after the loop.
LoopResult(sc, fc, errs) ==
    [kind |-> "returned", success |-> (fc = 0), successCount |-> sc,
     failureCount |-> fc, errorsDefined |-> (Len(errs) > 0),
     errors |-> errs]

\* The return of the outer catch.
OuterCatchResult(ids, thrown) ==
    [kind |-> "returned", success |-> FALSE, successCount |-> 0,
     failureCount |-> Len(ids), errorsDefined |-> TRUE,
     errors |-> <<[orderId |-> "",
                   error |-> ErrorMessage(thrown, "ERR_BATCH_FAILED")]>>]

\* The effect of a resolved updateOrderStatus(orderId, status) on the table.
updateOrderStatusQuery(tbl, orderId, st) ==
    [tbl EXCEPT ![orderId] = st]

\* The index the for-of loop moves to after handling one entry.
NextEntry(i) == i + 1

\* Entry of the action up to the loop: the empty-list return or the
\* initialisation of the counters.
BatchStart(ids, st) ==
    /\ pc = "idle"
    /\ call' = "batch"
    /\ orderIds' = ids
    /\ status' = st
    /\ successCount' = 0
    /\ failureCount' = 0
    /\ errors' = <<>>
    /\ attempts' = <<>>
    /\ idx' = 1
    /\ env' = [kind |-> "batch", revalidate |-> "pending"]
    /\ IF Len(ids) = 0
          THEN /\ pc' = "done"
               /\ result' = EmptyListResult
          ELSE /\ pc' = "loop"
               /\ result' = NoResult
    /\ UNCHANGED <<orderStatus, profileEmail, wholesalerRow, preferences>>

\* for (const orderId of orderIds) { await updateOrderStatusQuery(...) :
\* the request for the current entry is sent.
BatchIssue ==
    /\ pc = "loop"
    /\ idx <= Len(orderIds)
    /\ pc' = "await"
    /\ attempts' = Append(attempts, [pos |-> idx, orderId |-> orderIds[idx],
                                     outcome |-> "inflight"])
    /\ UNCHANGED <<call, orderIds, status, idx, successCount, failureCount,
                   errors, env, result, orderStatus, profileEmail,
                   wholesalerRow, preferences>>

\* (variant: an order that was already updated in this call is not counted
\* a second time)
BatchUpdateOk_CountDistinct ==
    /\ pc = "await"
    /\ orderStatus' = [orderStatus EXCEPT ![orderIds[idx]] = status]
    /\ successCount' =
          IF \E p \in 1..(Len(attempts) - 1) :
                 attempts[p].orderId = orderIds[idx] /\ attempts[p].outcome = "ok"
             THEN successCount ELSE successCount + 1
    /\ attempts' = [attempts EXCEPT ![Len(attempts)].outcome = "ok"]
    /\ idx' = idx + 1
    /\ pc' = "loop"
    /\ UNCHANGED <<call, orderIds, status, failureCount, errors, env, result,
                   profileEmail, wholesalerRow, preferences>>

\* The awaited update resolved: successCount++.
BatchUpdateOk ==
    /\ pc = "await"
    /\ orderStatus' = updateOrderStatusQuery(orderStatus, orderIds[idx], status)
    /\ successCount' = successCount + 1
    /\ attempts' = [attempts EXCEPT ![Len(attempts)].outcome = "ok"]
    /\ idx' = NextEntry(idx)
    /\ pc' = "loop"
    /\ UNCHANGED <<call, orderIds, status, failureCount, errors, env, result,
                   profileEmail, wholesalerRow, preferences>>

\* (variant: the first failure ends the loop)
BatchUpdateFail_Abort(thrown) ==
    /\ pc = "await"
    /\ failureCount' = failureCount + 1
    /\ errors' = Append(errors,
                    [orderId |-> orderIds[idx],
                     error |-> ErrorMessage(thrown, "ERR_ORDER_UPDATE_FAILED")])
    /\ attempts' = [attempts EXCEPT ![Len(attempts)].outcome = "failed"]
    /\ idx' = Len(orderIds) + 1
    /\ pc' = "loop"
    /\ UNCHANGED <<call, orderIds, status, successCount, env, result,
                   orderStatus, profileEmail, wholesalerRow, preferences>>

\* (variant: a failed entry is tried again)
BatchUpdateFail_Retry(thrown) ==
    /\ pc = "await"
    /\ failureCount' = failureCount + 1
    /\ errors' = Append(errors,
                    [orderId |-> orderIds[idx],
                     error |-> ErrorMessage(thrown, "ERR_ORDER_UPDATE_FAILED")])
    /\ attempts' = [attempts EXCEPT ![Len(attempts)].outcome = "failed"]
    /\ idx' = idx
    /\ pc' = "loop"
    /\ UNCHANGED <<call, orderIds, status, successCount, env, result,
                   orderStatus, profileEmail, wholesalerRow, preferences>>

\* The awaited update rejected: the inner catch counts and records it.
BatchUpdateFail(thrown) ==
    /\ pc = "await"
    /\ failureCount' = failureCount + 1
    /\ errors' = Append(errors,
                    [orderId |-> orderIds[idx],
                     error |-> ErrorMessage(thrown, "ERR_ORDER_UPDATE_FAILED")])
    /\ attempts' = [attempts EXCEPT ![Len(attempts)].outcome = "failed"]
    /\ idx' = NextEntry(idx)
    /\ pc' = "loop"
    /\ UNCHANGED <<call, orderIds, status, successCount, env, result,
                   orderStatus, profileEmail, wholesalerRow, preferences>>

\* The loop is over, revalidatePath returned: the normal return.
BatchReturn ==
    /\ pc = "loop"
    /\ idx > Len(orderIds)
    /\ env' = [kind |-> "batch", revalidate |-> "ok"]
    /\ result' = LoopResult(successCount, failureCount, errors)
    /\ pc' = "done"
    /\ UNCHANGED <<call, orderIds, status, idx, successCount, failureCount,
                   errors, attempts, orderStatus, profileEmail, wholesalerRow,
                   preferences>>

\* The loop is over, revalidatePath threw: the outer catch returns.
BatchOuterCatch(thrown) ==
    /\ pc = "loop"
    /\ idx > Len(orderIds)
    /\ env' = [kind |-> "batch", revalidate |-> "throw"]
    /\ result' = OuterCatchResult(orderIds, thrown)
    /\ pc' = "done"
    /\ UNCHANGED <<call, orderIds, status, idx, successCount, failureCount,
                   errors, attempts, orderStatus, profileEmail, wholesalerRow,
                   preferences>>

\* The caller has received the result; the next server action may start.
ActionDone ==
    /\ pc = "done"
    /\ pc' = "idle"
    /\ call' = "none"
    /\ orderIds' = <<>>
    /\ status' = "pending"
    /\ idx' = 1
    /\ successCount' = 0
    /\ failureCount' = 0
    /\ errors' = <<>>
    /\ attempts' = <<>>
    /\ env' = NoEnv
    /\ result' = NoResult
    /\ UNCHANGED <<orderStatus, profileEmail, wholesalerRow, preferences>>

----------------------------------------------------------------------------
(* updateEmail, updateWholesaler, updateNotificationPreferences *)

Emails == {"old@example.com", "new@example.com"}

\* The shape of UpdateEmailResult / UpdateWholesalerResult /
\* UpdateNotificationPreferencesResult.  An absent optional field is
\* recorded by its ...Defined flag.
Failure(msg) ==
    [kind |-> "returned", success |-> FALSE, errorDefined |-> TRUE,
     error |-> msg, messageDefined |-> FALSE, message |-> ""]

Success ==
    [kind |-> "returned", success |-> TRUE, errorDefined |-> FALSE,
     error |-> "", messageDefined |-> FALSE, message |-> ""]

SuccessWithMessage(msg) ==
    [kind |-> "returned", success |-> TRUE, errorDefined |-> FALSE,
     error |-> "", messageDefined |-> TRUE, message |-> msg]

\* The catch block of the three actions: success false, the message of the
\* thrown Error or the action's fixed text.
CatchResult(thrown, fallback) == Failure(ErrorMessage(thrown, fallback))

\* What the collaborators of updateEmail may answer.
EmailEnvs ==
    [auth : {"user", "null", "throw"},
     getUser : {"user", "null", "throw"},
     currentEmail : Emails \cup {"undefined"},
     serviceClient : {"ok", "throw"},
     update : {"ok", "error", "throw"},
     thrown : ThrownValues]

\* The calls updateEmail really makes under the answers e: a call behind
\* an early return or a throw is "not_called".
EmailTrace(email, e) ==
    LET a == e.auth
        g == IF a = "user" THEN e.getUser ELSE "not_called"
        same == (g = "user") /\ (e.currentEmail = email)
        c == IF g = "user" /\ ~same THEN e.serviceClient ELSE "not_called"
        u == IF c = "ok" THEN e.update ELSE "not_called"
    IN [kind |-> "email", auth |-> a, getUser |-> g, same |-> same,
        serviceClient |-> c, update |-> u, thrown |-> e.thrown]

\* A throw inside the try block of an action, before the catch sees it.
Thrown(thrown) == [kind |-> "thrown", thrown |-> thrown]

\* try { body } catch (error) { return { success: false, error: ... } }
TryCatch_Rethrow(body, fallback) == body

TryCatch(body, fallback) ==
    IF body.kind = "thrown" THEN CatchResult(body.thrown, fallback) ELSE body

\* The try block of updateEmail for the calls t.
UpdateEmailBody(email, t) ==
    IF "throw" \in {t.auth, t.getUser, t.serviceClient, t.update}
       THEN Thrown(t.thrown)
    ELSE IF t.auth = "null" THEN Failure("ERR_AUTH_REQUIRED")
    ELSE IF t.getUser = "null" THEN Failure("ERR_USER_NOT_FOUND")
    ELSE IF t.same THEN Failure("ERR_SAME_EMAIL")
    ELSE IF t.update = "error" THEN Failure("ERR_EMAIL_CHANGE")
    ELSE SuccessWithMessage(email)

updateEmail(email, e) ==
    /\ pc = "idle"
    /\ call' = "email"
    /\ env' = EmailTrace(email, e)
    /\ result' = TryCatch(UpdateEmailBody(email, env'), "ERR_EMAIL_CHANGE")
    /\ profileEmail' = IF env'.update = "ok" THEN email ELSE profileEmail
    /\ pc' = "done"
    /\ UNCHANGED <<orderIds, status, idx, successCount, failureCount, errors,
                   attempts, orderStatus, wholesalerRow, preferences>>

\* What the collaborators of updateWholesaler and of
\* updateNotificationPreferences may answer.  profile is what
\* getUserProfile() resolves to: no profile, or a profile with its role.
WholesalerEnvs ==
    [profile : {"none", "wholesaler", "retailer", "admin", "null_role", "throw"},
     serviceClient : {"ok", "throw"},
     fetch : {"row", "error", "no_row", "throw"},
     update : {"ok", "error", "throw"},
     thrown : ThrownValues]

\* The calls the two actions really make under the answers e.
WholesalerTrace(name, e) ==
    LET p == e.profile
        c == IF p = "wholesaler" THEN e.serviceClient ELSE "not_called"
        f == IF c = "ok" THEN e.fetch ELSE "not_called"
        u == IF f = "row" THEN e.update ELSE "not_called"
    IN [kind |-> name, profile |-> p, serviceClient |-> c, fetch |-> f,
        update |-> u, thrown |-> e.thrown]

\* The try block of the two actions for the calls t; they differ in the
\* texts only.
WholesalerBody(t, notFound, updateFailed) ==
    IF "throw" \in {t.profile, t.serviceClient, t.fetch, t.update}
       THEN Thrown(t.thrown)
    ELSE IF t.profile = "none" THEN Failure("ERR_AUTH_REQUIRED")
    ELSE IF t.profile # "wholesaler" THEN Failure("ERR_WHOLESALER_ONLY")
    ELSE IF t.fetch = "error" THEN Failure(notFound)
    ELSE IF t.fetch = "no_row" THEN Failure(notFound)
    ELSE IF t.update = "error" THEN Failure(updateFailed)
    ELSE Success

\* String.prototype.trim on the values the forms carry.
Trim(s) ==
    CASE s = " Acme " -> "Acme"
      [] s = " Seoul " -> "Seoul"
      [] s = " 101 " -> "101"
      [] s = " " -> ""
      [] OTHER -> s

\* formatPhone of lib/utils/format.ts: digits to the dashed form.
formatPhone(p) ==
    CASE p = "01012345678" -> "010-1234-5678"
      [] OTHER -> p

\* The forms handed to updateWholesaler.
WholesalerForms ==
    { [business_name |-> " Acme ", phone |-> "01012345678",
       address |-> " Seoul ", address_detail |-> " 101 ",
       bank_name |-> "KB", bank_account_number |-> "123"],
      [business_name |-> "", phone |-> "", address |-> "",
       address_detail |-> "undefined",
       bank_name |-> "KB", bank_account_number |-> ""],
      [business_name |-> "Acme", phone |-> "010-1234-5678",
       address |-> "Seoul", address_detail |-> " ",
       bank_name |-> "NH", bank_account_number |-> "456"] }

\* updateData applied to the row: a field the form leaves empty keeps its
\* value.
ApplyUpdateData(row, form) ==
    [business_name |->
        IF form.business_name # "" THEN Trim(form.business_name)
                                   ELSE row.business_name,
     phone |->
        IF form.phone # "" THEN formatPhone(form.phone) ELSE row.phone,
     address |->
        IF form.address # "" THEN Trim(form.address) ELSE row.address,
     address_detail |->
        IF form.address_detail # "undefined"
           THEN (IF Trim(form.address_detail) # ""
                    THEN Trim(form.address_detail) ELSE "null")
           ELSE row.address_detail,
     bank_account |->
        IF form.bank_name # "" /\ form.bank_account_number # ""
           THEN form.bank_name \o " " \o form.bank_account_number
           ELSE row.bank_account]

updateWholesaler(form, e) ==
    /\ pc = "idle"
    /\ call' = "wholesaler"
    /\ env' = WholesalerTrace("wholesaler", e)
    /\ result' = TryCatch(WholesalerBody(env', "ERR_WHOLESALER_NOT_FOUND",
                                         "ERR_WHOLESALER_UPDATE"),
                          "ERR_WHOLESALER_UPDATE")
    /\ wholesalerRow' = IF env'.update = "ok"
                           THEN ApplyUpdateData(wholesalerRow, form)
                           ELSE wholesalerRow
    /\ pc' = "done"
    /\ UNCHANGED <<orderIds, status, idx, successCount, failureCount, errors,
                   attempts, orderStatus, profileEmail, preferences>>

\* The forms handed to updateNotificationPreferences.
PreferenceForms == {"all_on", "push_off"}

updateNotificationPreferences(form, e) ==
    /\ pc = "idle"
    /\ call' = "preferences"
    /\ env' = WholesalerTrace("preferences", e)
    /\ result' = TryCatch(WholesalerBody(env', "ERR_WHOLESALER_NOT_FOUND",
                                         "ERR_PREFERENCES_UPDATE"),
                          "ERR_PREFERENCES_UPDATE")
    /\ preferences' = IF env'.update = "ok" THEN form ELSE preferences
    /\ pc' = "done"
    /\ UNCHANGED <<orderIds, status, idx, successCount, failureCount, errors,
                   attempts, orderStatus, profileEmail, wholesalerRow>>

----------------------------------------------------------------------------
(* GET /api/wholesaler/dashboard/{recent-orders, low-stock, stats} *)

Routes == {"recent-orders", "low-stock", "stats"}
NodeEnvs == {"development", "production", "test"}

\* What the awaited query of a route does: it resolves, or it throws an
\* Error (with or without a stack) or a value that is not an Error.
QueryOutcomes ==
    { [kind |-> "ok",    isError |-> FALSE, message |-> "",        hasStack |-> FALSE],
      [kind |-> "throw", isError |-> TRUE,  message |-> "E_QUERY", hasStack |-> TRUE],
      [kind |-> "throw", isError |-> TRUE,  message |-> "E_QUERY", hasStack |-> FALSE],
      [kind |-> "throw", isError |-> FALSE, message |-> "",        hasStack |-> FALSE] }

NoResponse == [kind |-> "none"]

\* NextResponse.json(body) / NextResponse.json(body, { status }); cause
\* keeps what the query did, for the properties.
JsonResponse(httpStatus, fields, message, cause) ==
    [kind |-> "response", status |-> httpStatus, fields |-> fields,
     message |-> message, cause |-> cause]

\* error instanceof Error ? error.message : "알 수 없는 오류"
RouteErrorMessage(o) == IF o.isError THEN o.message ELSE "ERR_UNKNOWN"

\* The body fields of the success response of each route.
OkFields(route) ==
    CASE route = "recent-orders" -> {"orders"}
      [] route = "low-stock" -> {"products"}
      [] OTHER -> {"...stats"}

\* (variant: the stack is sent whatever NODE_ENV is)
ErrorFields_StackAlways(route, o, nenv) ==
    IF route = "recent-orders" /\ o.isError /\ o.hasStack
       THEN {"error", "message", "stack"}
       ELSE {"error", "message"}

\* The body fields of the 500 response of each route: recent-orders
\* spreads { stack } into the body in development when the Error has one.
ErrorFields(route, o, nenv) ==
    IF route = "recent-orders" /\ nenv = "development" /\ o.isError /\ o.hasStack
       THEN {"error", "message", "stack"}
       ELSE {"error", "message"}

\* The catch block of a route.
RouteCatch(route, o, nenv) ==
    JsonResponse(500, ErrorFields(route, o, nenv), RouteErrorMessage(o), o)

\* One GET of a route, from the request to the response.
GET(route, o) ==
    /\ responses' = [responses EXCEPT ![route] =
          IF o.kind = "ok"
             THEN JsonResponse(200, OkFields(route), "", o)
             ELSE RouteCatch(route, o, nodeEnv)]
    /\ UNCHANGED nodeEnv

RoutesIdle ==
    /\ nodeEnv = "production"
    /\ responses = [r \in Routes |-> NoResponse]

InitRoutes ==
    /\ nodeEnv \in NodeEnvs
    /\ responses = [r \in Routes |-> NoResponse]

NextRoutes ==
    \E route \in Routes, o \in QueryOutcomes : GET(route, o)

----------------------------------------------------------------------------
(* Trigger trg_generate_anonymous_code on public.wholesalers *)

\* An anonymous_code.  A text matching ^VENDOR-\d+$ is held as its digits;
\* any other non-empty text is held whole.
Vendor(ds) == [vendor |-> TRUE, digits |-> ds, text |-> "VENDOR-"]
OtherCode(t) == [vendor |-> FALSE, digits |-> <<>>, text |-> t]
NullCode == OtherCode("NULL")
EmptyCode == OtherCode("")

PadWidth == 3          \* lpad(next_number::text, 3, '0')

\* The value of a digit string: cast(code_match[1] as integer).
RECURSIVE DigitsValue(_)
DigitsValue(ds) ==
    IF ds = <<>> THEN 0
    ELSE 10 * DigitsValue(SubSeq(ds, 1, Len(ds) - 1)) + ds[Len(ds)]

\* The decimal digits of a positive integer: next_number::text.
RECURSIVE ToDigits(_)
ToDigits(n) ==
    IF n < 10 THEN <<n>> ELSE Append(ToDigits(n \div 10), n % 10)

\* (variant: pads and never truncates)
lpad_NoTruncate(ds, width) ==
    IF Len(ds) >= width THEN ds
    ELSE [i \in 1..(width - Len(ds)) |-> 0] \o ds

\* lpad(text, width, '0'): fills on the left up to width and cuts a longer
\* text down to its first width characters.
lpad(ds, width) ==
    IF Len(ds) >= width THEN SubSeq(ds, 1, width)
    ELSE [i \in 1..(width - Len(ds)) |-> 0] \o ds

\* Text order of two digit strings behind the common prefix "VENDOR-".
TextLess(a, b) ==
    \E i \in 1..(Len(a) + 1) :
        /\ \A j \in 1..(i - 1) : j <= Len(b) /\ a[j] = b[j]
        /\ \/ (i = Len(a) + 1 /\ Len(b) >= i)
           \/ (i <= Len(a) /\ i <= Len(b) /\ a[i] < b[i])

\* select anonymous_code ... where anonymous_code ~ '^VENDOR-\d+$'
\* order by anonymous_code desc limit 1  (the empty sequence: no row)
SelectMaxCode(codes) ==
    LET vs == {c.digits : c \in {x \in codes : x.vendor}}
    IN IF vs = {} THEN <<>>
       ELSE CHOOSE m \in vs : \A o \in vs : o = m \/ TextLess(o, m)

\* The code the trigger function computes from the rows it sees.
GenerateCode(codes) ==
    LET max_code == SelectMaxCode(codes)
        next_number == IF max_code # <<>> THEN DigitsValue(max_code) + 1 ELSE 1
    IN Vendor(lpad(ToDigits(next_number), PadWidth))

\* The anonymous_code values INSERT statements supply.
SuppliedCodes ==
    { NullCode, EmptyCode, Vendor(<<1, 0, 0>>), Vendor(<<9, 9, 9>>),
      Vendor(<<5>>), Vendor(<<0, 1, 0>>), OtherCode("PARTNER-1") }

Txns == {"t1", "t2"}

CommittedCodes == {r.code : r \in wholesalers}

IdleTxn == [pc |-> "idle", code |-> NullCode, generated |-> FALSE]

\* INSERT INTO wholesalers: the BEFORE INSERT trigger starts.  A supplied
\* code is kept as it is; without one the function asks for the lock.
BeginInsert(t, given) ==
    /\ txn[t].pc = "idle"
    /\ Cardinality(wholesalers)
         + Cardinality({u \in Txns : txn[u].pc # "idle"}) < MaxWholesalers
    /\ txn' = [txn EXCEPT ![t] =
          IF given # NullCode /\ given # EmptyCode
             THEN [pc |-> "triggered", code |-> given, generated |-> FALSE]
             ELSE [pc |-> "wantlock", code |-> given, generated |-> FALSE]]
    /\ UNCHANGED <<wholesalers, lockHolder>>

\* perform pg_advisory_xact_lock(lock_id): granted when no other
\* transaction holds it.
AcquireLock(t) ==
    /\ txn[t].pc = "wantlock"
    /\ lockHolder \in {"none", t}
    /\ lockHolder' = t
    /\ txn' = [txn EXCEPT ![t].pc = "locked"]
    /\ UNCHANGED wholesalers

\* The select and the assignment of new.anonymous_code, reading the rows
\* committed so far.
Generate(t) ==
    /\ txn[t].pc = "locked"
    /\ txn' = [txn EXCEPT ![t] =
          [pc |-> "triggered", code |-> GenerateCode(CommittedCodes),
           generated |-> TRUE]]
    /\ UNCHANGED <<wholesalers, lockHolder>>

\* The row goes into the table: the UNIQUE constraint on anonymous_code
\* rejects a committed duplicate (the transaction aborts) and waits for an
\* uncommitted one.
InsertRow(t) ==
    /\ txn[t].pc = "triggered"
    /\ \A u \in Txns \ {t} :
          ~(txn[u].pc = "inserted" /\ txn[u].code = txn[t].code)
    /\ IF txn[t].code \in CommittedCodes
          THEN /\ txn' = [txn EXCEPT ![t] = IdleTxn]
               /\ lockHolder' = IF lockHolder = t THEN "none" ELSE lockHolder
          ELSE /\ txn' = [txn EXCEPT ![t].pc = "inserted"]
               /\ UNCHANGED lockHolder
    /\ UNCHANGED wholesalers

\* COMMIT: the row becomes visible and the transaction-scoped lock is
\* released.
Commit(t) ==
    /\ txn[t].pc = "inserted"
    /\ wholesalers' = wholesalers \cup
          {[code |-> txn[t].code, generated |-> txn[t].generated]}
    /\ lockHolder' = IF lockHolder = t THEN "none" ELSE lockHolder
    /\ txn' = [txn EXCEPT ![t] = IdleTxn]

\* ROLLBACK: nothing of the transaction stays, the lock is released.
Rollback(t) ==
    /\ txn[t].pc # "idle"
    /\ lockHolder' = IF lockHolder = t THEN "none" ELSE lockHolder
    /\ txn' = [txn EXCEPT ![t] = IdleTxn]
    /\ UNCHANGED wholesalers

InitCodes ==
    /\ wholesalers = {}
    /\ txn = [t \in Txns |-> IdleTxn]
    /\ lockHolder = "none"

NextCodes ==
    \/ \E t \in Txns, given \in SuppliedCodes : BeginInsert(t, given)
    \/ \E t \in Txns : AcquireLock(t)
    \/ \E t \in Txns : Generate(t)
    \/ \E t \in Txns : InsertRow(t)
    \/ \E t \in Txns : Commit(t)
    \/ \E t \in Txns : Rollback(t)

----------------------------------------------------------------------------
(* public.profiles.role and constraint chk_profiles_role *)

ProfileIds == {"p1", "p2"}
ValidRoles == {"retailer", "wholesaler", "admin"}

\* The values a statement may try to store in role: the three roles, NULL,
\* and texts that are no role.
RoleValues == ValidRoles \cup {"NULL", "seller", ""}

\* (variant: the list of the check names one role more)
CheckExpr_ExtraRole(role) ==
    role = "NULL" \/ role \in ValidRoles \cup {"seller"}

\* check (role is null or role in ('retailer', 'wholesaler', 'admin'))
CheckExpr(role) == role = "NULL" \/ role \in ValidRoles

\* Whether the table accepts role under its present constraints.  A CHECK
\* passes on NULL; the constraint that was there before the migration
\* lists the same three roles.
Accepts(role, notNull, chk) ==
    /\ (notNull => role # "NULL")
    /\ (chk = "new" => CheckExpr(role))
    /\ (chk = "old" => (role = "NULL" \/ role \in ValidRoles))

NoWrite == [op |-> "none", id |-> "p1", role |-> "NULL", accepted |-> FALSE]

\* INSERT INTO profiles (..., role) VALUES (..., role)
InsertProfile(id, role) ==
    /\ profiles[id] = "absent"
    /\ LET ok == Accepts(role, roleNotNull, roleCheck)
       IN /\ profiles' = IF ok THEN [profiles EXCEPT ![id] = role] ELSE profiles
          /\ lastWrite' = [op |-> "insert", id |-> id, role |-> role,
                           accepted |-> ok]
    /\ UNCHANGED <<roleNotNull, roleCheck, migrated>>

\* UPDATE profiles SET role = role WHERE id = id
UpdateProfileRole(id, role) ==
    /\ profiles[id] # "absent"
    /\ LET ok == Accepts(role, roleNotNull, roleCheck)
       IN /\ profiles' = IF ok THEN [profiles EXCEPT ![id] = role] ELSE profiles
          /\ lastWrite' = [op |-> "update", id |-> id, role |-> role,
                           accepted |-> ok]
    /\ UNCHANGED <<roleNotNull, roleCheck, migrated>>

\* ADD CONSTRAINT validates the rows that are there: it fails when one of
\* them violates the check.
RowsPassCheck(rows) ==
    \A id \in ProfileIds : rows[id] = "absent" \/ CheckExpr(rows[id])

\* The role migration, run as one transaction: drop not null, drop
\* chk_profiles_role if it exists, add it again.  A failing ADD CONSTRAINT
\* rolls the whole run back.
AllowNullRole ==
    /\ migrated < MaxMigrationRuns
    /\ IF RowsPassCheck(profiles)
          THEN /\ roleNotNull' = FALSE
               /\ roleCheck' = "new"
               /\ migrated' = migrated + 1
          ELSE UNCHANGED <<roleNotNull, roleCheck, migrated>>
    /\ UNCHANGED <<profiles, lastWrite>>

RolesIdle ==
    /\ profiles = [id \in ProfileIds |-> "absent"]
    /\ roleNotNull = TRUE
    /\ roleCheck = "old"
    /\ migrated = 0
    /\ lastWrite = NoWrite

\* Before the migration role is NOT NULL; chk_profiles_role may or may not
\* exist yet.
InitRoles ==
    /\ profiles = [id \in ProfileIds |-> "absent"]
    /\ roleNotNull = TRUE
    /\ roleCheck \in {"none", "old"}
    /\ migrated = 0
    /\ lastWrite = NoWrite

NextRoles ==
    \/ \E id \in ProfileIds, role \in RoleValues : InsertProfile(id, role)
    \/ \E id \in ProfileIds, role \in RoleValues : UpdateProfileRole(id, role)
    \/ AllowNullRole

----------------------------------------------------------------------------
(* getUnreadOrdersCount / markAllOrdersAsRead on public.orders *)

NotifOrderIds == {"n1", "n2", "n3"}
WholesalerIds == {"w1", "w2"}

NoOrder == [present |-> FALSE, wholesaler_id |-> "", wholesaler_read_at |-> 0]

\* wholesaler_read_at: 0 stands for NULL, a positive number for the time.
NullTime == 0

\* A new order: the column wholesaler_read_at has no default, the row
\* starts with NULL.
NewOrder(w) ==
    [present |-> TRUE, wholesaler_id |-> w, wholesaler_read_at |-> NullTime]

\* .from("orders"): the ids of the rows of the table.
FromOrders(tbl) == {o \in NotifOrderIds : tbl[o].present}

\* .eq("wholesaler_id", wholesalerId)
EqWholesaler(tbl, rows, w) == {o \in rows : tbl[o].wholesaler_id = w}

\* (variant: the filter on wholesaler_read_at is missing)
IsUnread_NoFilter(tbl, rows) == rows

\* .is("wholesaler_read_at", null)
IsUnread(tbl, rows) == {o \in rows : tbl[o].wholesaler_read_at = NullTime}

\* The rows the two notification queries address.
UnreadRowsOf(tbl, w) == IsUnread(tbl, EqWholesaler(tbl, FromOrders(tbl), w))

NoQuery == [op |-> "none", wholesalerId |-> "", kind |-> "none", value |-> 0]

\* An order arrives for wholesaler w.
CreateOrder(o, w) ==
    /\ ~orders[o].present
    /\ orders' = [orders EXCEPT ![o] = NewOrder(w)]
    /\ UNCHANGED <<clock, queryResult>>

\* Time passes.
Tick ==
    /\ clock < MaxClock
    /\ clock' = clock + 1
    /\ UNCHANGED <<orders, queryResult>>

\* getUnreadOrdersCount: select("*", { count: "exact", head: true }) with
\* the two filters; an error of the query is thrown, else count ?? 0.
getUnreadOrdersCount(w, answer) ==
    /\ queryResult' =
          IF answer = "error"
             THEN [op |-> "count", wholesalerId |-> w, kind |-> "thrown",
                   value |-> 0]
             ELSE [op |-> "count", wholesalerId |-> w, kind |-> "returned",
                   value |-> Cardinality(UnreadRowsOf(orders, w))]
    /\ UNCHANGED <<orders, clock>>

\* (variant: the update is sent without select("id"), data is null)
markAllOrdersAsRead_NoSelect(w, answer) ==
    /\ IF answer = "error"
          THEN /\ queryResult' = [op |-> "mark", wholesalerId |-> w,
                                  kind |-> "thrown", value |-> 0]
               /\ UNCHANGED orders
          ELSE LET hit == UnreadRowsOf(orders, w)
               IN /\ orders' = [o \in NotifOrderIds |->
                        IF o \in hit
                           THEN [orders[o] EXCEPT !.wholesaler_read_at = clock]
                           ELSE orders[o]]
                  /\ queryResult' = [op |-> "mark", wholesalerId |-> w,
                                     kind |-> "returned", value |-> 0]
    /\ UNCHANGED clock

\* markAllOrdersAsRead: update({ wholesaler_read_at: now }) with the two
\* filters, select("id"); an error is thrown, else data.length.
markAllOrdersAsRead(w, answer) ==
    /\ IF answer = "error"
          THEN /\ queryResult' = [op |-> "mark", wholesalerId |-> w,
                                  kind |-> "thrown", value |-> 0]
               /\ UNCHANGED orders
          ELSE LET hit == UnreadRowsOf(orders, w)
               IN /\ orders' = [o \in NotifOrderIds |->
                        IF o \in hit
                           THEN [orders[o] EXCEPT !.wholesaler_read_at = clock]
                           ELSE orders[o]]
                  /\ queryResult' = [op |-> "mark", wholesalerId |-> w,
                                     kind |-> "returned",
                                     value |-> Cardinality(hit)]
    /\ UNCHANGED clock

InitNotif ==
    /\ orders = [o \in NotifOrderIds |-> NoOrder]
    /\ clock = 1
    /\ queryResult = NoQuery

NextNotif ==
    \/ \E o \in NotifOrderIds, w \in WholesalerIds : CreateOrder(o, w)
    \/ Tick
    \/ \E w \in WholesalerIds, answer \in {"ok", "error"} :
          getUnreadOrdersCount(w, answer)
    \/ \E w \in WholesalerIds, answer \in {"ok", "error"} :
          markAllOrdersAsRead(w, answer)

----------------------------------------------------------------------------
(* useCartStore: items, getSummary, addToCart, updateCartItem,             *)
(* removeFromCart, clearCart                                               *)

\* What generateCartItemId() may hand out; nothing keeps two calls from
\* handing out the same text.
CartItemIds == {"c1", "c2"}

\* The AddToCartInput values the product pages pass: two offers of the
\* same product without variant and one of a variant of it.
AddToCartInputs ==
    { [product_id |-> "pA", variant_id |-> "null", product_name |-> "Apple",
       quantity |-> 1, unit_price |-> 100, delivery_method |-> "courier",
       moq |-> 1, stock_quantity |-> 10],
      [product_id |-> "pA", variant_id |-> "null", product_name |-> "Apple 5kg",
       quantity |-> 2, unit_price |-> 120, delivery_method |-> "direct",
       moq |-> 2, stock_quantity |-> 5],
      [product_id |-> "pA", variant_id |-> "v1", product_name |-> "Apple",
       quantity |-> 1, unit_price |-> 150, delivery_method |-> "courier",
       moq |-> 1, stock_quantity |-> 10] }

\* The UpdateCartItemInput values besides id: each optional field is
\* given or undefined.
UpdateCartItemInputs ==
    { [hasQuantity |-> TRUE, quantity |-> 3, hasPrice |-> FALSE,
       unit_price |-> 0, hasDelivery |-> FALSE, delivery_method |-> ""],
      [hasQuantity |-> FALSE, quantity |-> 0, hasPrice |-> TRUE,
       unit_price |-> 120, hasDelivery |-> TRUE, delivery_method |-> "direct"] }

\* { id: generateCartItemId(), ...input }
NewItem(id, input) ==
    [id |-> id, product_id |-> input.product_id,
     variant_id |-> input.variant_id, product_name |-> input.product_name,
     quantity |-> input.quantity, unit_price |-> input.unit_price,
     delivery_method |-> input.delivery_method, moq |-> input.moq,
     stock_quantity |-> input.stock_quantity]

\* (variant: the variant_id is not compared)
SameProduct_IgnoreVariant(item, input) ==
    item.product_id = input.product_id

\* The predicate of the findIndex in addToCart.
SameProduct(item, input) ==
    /\ item.product_id = input.product_id
    /\ item.variant_id = input.variant_id

\* Array.prototype.findIndex: the first index that passes, 0 for -1.
FindIndex(seq, Pass(_)) ==
    IF \E i \in 1..Len(seq) : Pass(seq[i])
       THEN CHOOSE i \in 1..Len(seq) :
               Pass(seq[i]) /\ \A j \in 1..(i - 1) : ~Pass(seq[j])
       ELSE 0

\* (variant: the shipping fee of an earlier version is still added)
getSummary_WithShipping(its) ==
    LET RECURSIVE Reduce(_, _)
        Reduce(i, sum) ==
            IF i > Len(its) THEN sum
            ELSE Reduce(i + 1, sum + its[i].unit_price * its[i].quantity)
        totalProductPrice == Reduce(1, 0)
    IN [totalProductPrice |-> totalProductPrice,
        totalPrice |-> IF Len(its) > 0 THEN totalProductPrice + 3000
                                       ELSE totalProductPrice,
        itemCount |-> Len(its)]

\* getSummary: items.reduce((sum, item) => sum + unit_price * quantity, 0),
\* totalPrice = totalProductPrice, itemCount = items.length.
getSummary(its) ==
    LET RECURSIVE Reduce(_, _)
        Reduce(i, sum) ==
            IF i > Len(its) THEN sum
            ELSE Reduce(i + 1, sum + its[i].unit_price * its[i].quantity)
        totalProductPrice == Reduce(1, 0)
    IN [totalProductPrice |-> totalProductPrice,
        totalPrice |-> totalProductPrice,
        itemCount |-> Len(its)]

\* A component reads state.getSummary().
GetSummary ==
    /\ summary' = getSummary(items)
    /\ UNCHANGED <<items, lastCartOp>>

addToCart(input, id) ==
    /\ LET existingItemIndex ==
               FindIndex(items, LAMBDA item : SameProduct(item, input))
       IN IF existingItemIndex # 0
             THEN /\ items[existingItemIndex].quantity + input.quantity
                        <= MaxQuantity
                  /\ items' = [items EXCEPT ![existingItemIndex] =
                        [@ EXCEPT
                           !.quantity = @ + input.quantity,
                           !.unit_price = input.unit_price,
                           !.delivery_method = input.delivery_method,
                           !.moq = input.moq,
                           !.stock_quantity = input.stock_quantity]]
             ELSE items' = Append(items, NewItem(id, input))
    /\ lastCartOp' = [op |-> "add", input |-> input]
    /\ UNCHANGED summary

updateCartItem(id, input) ==
    /\ LET itemIndex == FindIndex(items, LAMBDA item : item.id = id)
       IN IF itemIndex = 0
             THEN items' = items
             ELSE items' = [items EXCEPT ![itemIndex] =
                     [@ EXCEPT
                        !.quantity =
                           IF input.hasQuantity THEN input.quantity ELSE @,
                        !.unit_price =
                           IF input.hasPrice THEN input.unit_price ELSE @,
                        !.delivery_method =
                           IF input.hasDelivery THEN input.delivery_method
                                                ELSE @]]
    /\ lastCartOp' = [op |-> "update", input |-> input]
    /\ UNCHANGED summary

removeFromCart(itemId) ==
    /\ items' = SelectSeq(items, LAMBDA item : item.id # itemId)
    /\ lastCartOp' = [op |-> "remove", input |-> itemId]
    /\ UNCHANGED summary

clearCart ==
    /\ items' = <<>>
    /\ lastCartOp' = [op |-> "clear", input |-> ""]
    /\ UNCHANGED summary

InitCart ==
    /\ items = <<>>
    /\ summary = [totalProductPrice |-> 0, totalPrice |-> 0, itemCount |-> 0]
    /\ lastCartOp = [op |-> "none", input |-> ""]

NextCart ==
    \/ \E input \in AddToCartInputs, id \in CartItemIds : addToCart(input, id)
    \/ \E id \in CartItemIds, input \in UpdateCartItemInputs :
          updateCartItem(id, input)
    \/ \E id \in CartItemIds : removeFromCart(id)
    \/ clearCart
    \/ GetSummary

----------------------------------------------------------------------------
InitActions ==
    /\ pc = "idle"
    /\ call = "none"
    /\ orderIds = <<>>
    /\ status = "pending"
    /\ idx = 1
    /\ successCount = 0
    /\ failureCount = 0
    /\ errors = <<>>
    /\ attempts = <<>>
    /\ env = NoEnv
    /\ result = NoResult
    /\ orderStatus = [o \in OrderIdSet |-> "pending"]
    /\ profileEmail = "old@example.com"
    /\ wholesalerRow = [business_name |-> "Old", phone |-> "010-0000-0000",
                        address |-> "Old", address_detail |-> "null",
                        bank_account |-> "Old 0"]
    /\ preferences = "default"

NextActions ==
    \/ \E ids \in SeqsUpTo(OrderIdSet, MaxOrderIds), st \in OrderStatuses :
          BatchStart(ids, st)
    \/ BatchIssue
    \/ BatchUpdateOk
    \/ \E thrown \in ThrownValues : BatchUpdateFail(thrown)
    \/ BatchReturn
    \/ \E thrown \in ThrownValues : BatchOuterCatch(thrown)
    \/ \E email \in Emails, e \in EmailEnvs : updateEmail(email, e)
    \/ \E form \in WholesalerForms, e \in WholesalerEnvs :
          updateWholesaler(form, e)
    \/ \E form \in PreferenceForms, e \in WholesalerEnvs :
          updateNotificationPreferences(form, e)
    \/ ActionDone

----------------------------------------------------------------------------
(* SignInWithRedirect (components/auth/sign-in-with-redirect.tsx) *)

\* A string is a sequence of pieces (words, parts of words and the
\* separators between them); a.includes(b) is "b is a run of pieces of a".
\* Korean pieces are written in romanised form: gyejeong (account),
\* jonjaehaji anhseumnida (does not exist), jonjaehaji anhneun (not
\* existing), chajeul su eopsseumnida (cannot be found), bimilbeonho
\* (password), teullyeossseumnida (is wrong), teullin (wrong); -i and
\* -reul are the particles that follow a noun.
MaxElements == 2

Includes(s, k) ==
    \E i \in 0..(Len(s) - Len(k)) : SubSeq(s, i + 1, i + Len(k)) = k

\* String.prototype.toLowerCase on a piece.
LowerPiece(p) ==
    CASE p = "Couldn't" -> "couldn't"
      [] p = "Password" -> "password"
      [] p = "Email" -> "email"
      [] p = "Too" -> "too"
      [] p = "formFieldLabel" -> "formfieldlabel"
      [] OTHER -> p

toLowerCase(s) == [i \in 1..Len(s) |-> LowerPiece(s[i])]

\* A regular expression a.*b.*c is the sequence of its literal parts; it
\* matches when the parts occur in this order without overlap.
RECURSIVE MatchFrom(_, _, _)
MatchFrom(s, parts, start) ==
    IF parts = <<>> THEN TRUE
    ELSE LET p == Head(parts)
         IN \E i \in start..(Len(s) - Len(p) + 1) :
               /\ SubSeq(s, i, i + Len(p) - 1) = p
               /\ MatchFrom(s, Tail(parts), i + Len(p))

Test(pattern, s) == MatchFrom(s, pattern, 1)

\* What the identity provider's form can hold: kind says what the element
\* shows, the other fields are what the DOM gives the component.
FormElements ==
    { [kind |-> "label", classes |-> {"cl-formFieldLabel"}, role |-> "",
       key |-> <<"formFieldLabel", "_", "_", "identifier">>,
       text |-> <<"Email", " ", "address">>],
      [kind |-> "label", classes |-> {"cl-formFieldLabel"}, role |-> "",
       key |-> <<"formFieldLabel", "_", "_", "password">>,
       text |-> <<"Password">>],
      [kind |-> "account_not_found", classes |-> {"cl-formFieldErrorText"},
       role |-> "",
       key |-> <<"form", "_", "identifier", "_", "not", "_", "found">>,
       text |-> <<"Couldn't", " ", "find", " ", "your", " ", "account">>],
      [kind |-> "account_not_found", classes |-> {"cl-alert"},
       role |-> "alert", key |-> <<>>,
       text |-> <<"gyejeong", "-i", " ", "jonjaehaji", " ", "anhseumnida">>],
      [kind |-> "password_error", classes |-> {"cl-formFieldErrorText"},
       role |-> "",
       key |-> <<"form", "_", "password", "_", "incorrect">>,
       text |-> <<"Password", " ", "is", " ", "incorrect">>],
      [kind |-> "password_error", classes |-> {"cl-alert"},
       role |-> "alert", key |-> <<>>,
       text |-> <<"bimilbeonho", "-reul", " ", "chajeul", " ", "su", " ", "eopsseumnida">>],
      [kind |-> "other_error", classes |-> {"error-box"},
       role |-> "alert", key |-> <<>>,
       text |-> <<"Too", " ", "many", " ", "requests">>] }

Doms == UNION {[1..n -> FormElements] : n \in 0..MaxElements}

\* class*="error" and class*="Error" on one class name.
ClassContains(c, part) ==
    \/ part = "error" /\ c \in {"error-box"}
    \/ part = "Error" /\ c \in {"cl-formFieldErrorText"}

\* The seven entries of errorSelectors, as tests on one element.
SelectorCount == 7

MatchesSelector(n, el) ==
    CASE n = 1 -> Includes(el.key, <<"identifier">>)
      [] n = 2 -> Includes(el.key, <<"form", "_", "identifier", "_", "not",
                                     "_", "found">>)
      [] n = 3 -> "cl-alert" \in el.classes
      [] n = 4 -> el.role = "alert"
      [] n = 5 -> "cl-formFieldErrorText" \in el.classes
      [] n = 6 -> \E c \in el.classes : ClassContains(c, "error")
      [] n = 7 -> \E c \in el.classes : ClassContains(c, "Error")

querySelectorAll(d, n) == {i \in 1..Len(d) : MatchesSelector(n, d[i])}

\* The for loop over errorSelectors: the matches of the first selector
\* that has any, else the (empty) matches of the last one.
errorElements(d) ==
    LET hits == {n \in 1..SelectorCount : querySelectorAll(d, n) # {}}
    IN IF hits = {} THEN {}
       ELSE querySelectorAll(d, CHOOSE n \in hits : \A m \in hits : n <= m)

accountNotFoundKeywords ==
    { <<"form", "_", "identifier", "_", "not", "_", "found">>,
      <<"account", " ", "not", " ", "found">>,
      <<"gyejeong", "-i", " ", "jonjaehaji", " ", "anhseumnida">>,
      <<"identifier", "_", "not", "_", "found">>,
      <<"user", " ", "not", " ", "found">>,
      <<"jonjaehaji", " ", "anhneun">>,
      <<"chajeul", " ", "su", " ", "eopsseumnida">>,
      <<"couldn't", " ", "find">>,
      <<"doesn't", " ", "exist">> }

\* innerHTML of an element of the form: its text (the elements are leaves).
innerHTML(el) == el.text

isAccountNotFound(el) ==
    \E keyword \in accountNotFoundKeywords :
        \/ Includes(toLowerCase(el.text), keyword)
        \/ Includes(toLowerCase(innerHTML(el)), keyword)
        \/ Includes(toLowerCase(el.key), keyword)

isPasswordError_Never(el) == FALSE

isPasswordError(el) ==
    \/ Includes(toLowerCase(el.text), <<"password">>)
    \/ Includes(toLowerCase(el.text), <<"bimilbeonho">>)
    \/ Includes(toLowerCase(el.text), <<"incorrect">>)
    \/ Includes(toLowerCase(el.text), <<"teullyeossseumnida">>)
    \/ Includes(toLowerCase(el.text), <<"wrong">>)
    \/ Includes(toLowerCase(el.key), <<"password">>)

\* containerRef.current.textContent: the texts of the elements in document
\* order.
RECURSIVE textContent(_)
textContent(d) ==
    IF d = <<>> THEN <<>> ELSE Head(d).text \o textContent(Tail(d))

accountNotFoundPatterns ==
    { << <<"form", "_", "identifier", "_", "not", "_", "found">> >>,
      << <<"gyejeong", "-i", " ", "jonjaehaji", " ", "anhseumnida">> >>,
      << <<"account">>, <<"not">>, <<"found">> >>,
      << <<"user">>, <<"not">>, <<"found">> >>,
      << <<"jonjaehaji", " ", "anhneun">>, <<"gyejeong">> >> }

passwordErrorPatterns ==
    { << <<"password">> >>,
      << <<"bimilbeonho">> >>,
      << <<"incorrect">>, <<"password">> >>,
      << <<"teullin">>, <<"bimilbeonho">> >> }

hasAccountNotFound(allText) ==
    \E pattern \in accountNotFoundPatterns : Test(pattern, allText)

hasPasswordError(allText) ==
    \E pattern \in passwordErrorPatterns : Test(pattern, allText)

\* checkForAccountNotFoundError: TRUE when it calls router.push.
Redirects(d) ==
    \/ \E i \in errorElements(d) :
          isAccountNotFound(d[i]) /\ ~isPasswordError(d[i])
    \/ hasAccountNotFound(toLowerCase(textContent(d)))
          /\ ~hasPasswordError(toLowerCase(textContent(d)))

checkForAccountNotFoundError ==
    IF hasRedirectedRef
       THEN UNCHANGED <<hasRedirectedRef, location>>
       ELSE /\ hasRedirectedRef' = Redirects(dom)
            /\ location' = IF Redirects(dom) THEN "redirectToSignUpUrl"
                           ELSE location

\* The identity provider's form changes what it shows; the observer is
\* notified of the mutation.
FormRenders(d) ==
    /\ mounted
    /\ d # dom
    /\ dom' = d
    /\ observerPending' = TRUE
    /\ UNCHANGED <<hasRedirectedRef, location, mounted>>

\* new MutationObserver(() => { checkForAccountNotFoundError(); })
ObserverCallback ==
    /\ mounted
    /\ observerPending
    /\ observerPending' = FALSE
    /\ checkForAccountNotFoundError
    /\ UNCHANGED <<dom, mounted>>

\* setInterval(() => { checkForAccountNotFoundError(); }, 500)
IntervalTick ==
    /\ mounted
    /\ checkForAccountNotFoundError
    /\ UNCHANGED <<dom, mounted, observerPending>>

\* The cleanup of the effect: observer.disconnect(), clearInterval.
Cleanup ==
    /\ mounted
    /\ mounted' = FALSE
    /\ observerPending' = FALSE
    /\ UNCHANGED <<dom, hasRedirectedRef, location>>

\* The sign-in page is opened again: a new component with a new ref.
Mount ==
    /\ ~mounted
    /\ mounted' = TRUE
    /\ dom' = <<>>
    /\ hasRedirectedRef' = FALSE
    /\ location' = "sign-in"
    /\ observerPending' = FALSE

InitSignIn ==
    /\ dom = <<>>
    /\ hasRedirectedRef = FALSE
    /\ location = "sign-in"
    /\ mounted = TRUE
    /\ observerPending = FALSE

NextSignIn ==
    \/ \E d \in Doms : FormRenders(d)
    \/ ObserverCallback
    \/ IntervalTick
    \/ Cleanup
    \/ Mount

----------------------------------------------------------------------------
(* useWholesalerNotifications (hooks/use-wholesaler-notifications.ts) *)

MaxHookOrders == 2

QueryNames == {"unread-count", "recent-orders"}

\* queryKey: ["notifications", name, wholesalerId]
QueryKey(name, wid) == <<"notifications", name, wid>>

\* The partial match of a query key against the queryKey of a filter: the
\* filter's entries are compared position by position.
partialMatchKey(a, b) ==
    /\ Len(b) <= Len(a)
    /\ \A i \in 1..Len(b) : a[i] = b[i]

\* data and reply of a query: undefined, or a value.
Undefined(q) ==
    [defined |-> FALSE, value |-> IF q = "unread-count" THEN 0 ELSE {}]

Defined(v) == [defined |-> TRUE, value |-> v]

IdleFetch(q) == [phase |-> "idle", reply |-> Undefined(q)]
RunningFetch(q) == [phase |-> "running", reply |-> Undefined(q)]

NewQuery(q) ==
    [data |-> Undefined(q), isInvalidated |-> FALSE, fetch |-> IdleFetch(q)]

\* enabled: !!wholesalerId, in a mounted component.
Enabled(wid) == hookMounted /\ wid # "null"

\* queryClient.invalidateQueries({ queryKey }): every query the filter
\* matches is marked, and refetched when it is in use; a fetch in flight
\* is replaced.
invalidateQueries(filterKey, wid, qs) ==
    [q \in QueryNames |->
        IF partialMatchKey(QueryKey(q, wid), filterKey)
           THEN [qs[q] EXCEPT !.isInvalidated = TRUE,
                              !.fetch = IF Enabled(wid) THEN RunningFetch(q)
                                        ELSE @]
           ELSE qs[q]]

\* The id the next inserted order gets: the ids are handed out in order.
OrderIdOrder == <<"n1", "n2", "n3">>

NextOrderId ==
    OrderIdOrder[CHOOSE i \in 1..Len(OrderIdOrder) :
                    /\ ~orders[OrderIdOrder[i]].present
                    /\ \A j \in 1..(i - 1) : orders[OrderIdOrder[j]].present]

\* What a query function reads from the table.
QueryFn(q, wid) ==
    IF q = "unread-count"
       THEN Cardinality(UnreadRowsOf(orders, wid))
       ELSE {[id |-> o, is_read |-> orders[o].wholesaler_read_at # NullTime] :
                o \in EqWholesaler(orders, FromOrders(orders), wid)}

\* useWholesaler() delivers the wholesaler: the queries become enabled and
\* fetch, the effect subscribes to the new orders of this wholesaler.
WholesalerLoaded(wid) ==
    /\ hookMounted
    /\ wholesalerId = "null"
    /\ wholesalerId' = wid
    /\ subscription' = wid
    /\ queries' = [q \in QueryNames |->
                      [NewQuery(q) EXCEPT !.fetch = RunningFetch(q)]]
    /\ UNCHANGED <<hookMounted, pendingEvents, mutation>>
    /\ UNCHANGED notifVars

\* An order is inserted for wholesaler w; the subscription of w is sent
\* the event.
InsertOrder(w) ==
    /\ Cardinality(FromOrders(orders)) < MaxHookOrders
    /\ pendingEvents' = IF subscription = w
                           THEN pendingEvents \cup {NextOrderId}
                           ELSE pendingEvents
    /\ CreateOrder(NextOrderId, w)
    /\ UNCHANGED <<wholesalerId, hookMounted, subscription, queries, mutation>>

\* (variant: the callback of the subscription refreshes the count only)
RealtimeEvent_CountOnly(o) ==
    /\ o \in pendingEvents
    /\ pendingEvents' = pendingEvents \ {o}
    /\ queries' = invalidateQueries(QueryKey("unread-count", subscription),
                                    subscription, queries)
    /\ UNCHANGED <<wholesalerId, hookMounted, subscription, mutation>>
    /\ UNCHANGED notifVars

\* The callback handed to subscribeToNewOrders runs for the event of o.
RealtimeEvent(o) ==
    /\ o \in pendingEvents
    /\ pendingEvents' = pendingEvents \ {o}
    /\ queries' =
          invalidateQueries(QueryKey("recent-orders", subscription),
                            subscription,
              invalidateQueries(QueryKey("unread-count", subscription),
                                subscription, queries))
    /\ UNCHANGED <<wholesalerId, hookMounted, subscription, mutation>>
    /\ UNCHANGED notifVars

\* The request of a running fetch reaches the table.
FetchRead(q) ==
    /\ queries[q].fetch.phase = "running"
    /\ queries' = [queries EXCEPT ![q].fetch =
                      [phase |-> "replied",
                       reply |-> Defined(QueryFn(q, wholesalerId))]]
    /\ UNCHANGED <<wholesalerId, hookMounted, subscription, pendingEvents,
                   mutation>>
    /\ UNCHANGED notifVars

\* The query function throws: the data stay as they are.
FetchError(q) ==
    /\ queries[q].fetch.phase = "running"
    /\ queries' = [queries EXCEPT ![q].fetch = IdleFetch(q)]
    /\ UNCHANGED <<wholesalerId, hookMounted, subscription, pendingEvents,
                   mutation>>
    /\ UNCHANGED notifVars

\* The reply of a fetch becomes the data of the query.
FetchSettle(q) ==
    /\ queries[q].fetch.phase = "replied"
    /\ queries' = [queries EXCEPT ![q] =
                      [data |-> queries[q].fetch.reply,
                       isInvalidated |-> FALSE,
                       fetch |-> IdleFetch(q)]]
    /\ UNCHANGED <<wholesalerId, hookMounted, subscription, pendingEvents,
                   mutation>>
    /\ UNCHANGED notifVars

\* refetchInterval: 30000 on the unread-count query.
RefetchInterval ==
    /\ Enabled(wholesalerId)
    /\ queries["unread-count"].fetch.phase = "idle"
    /\ queries' = [queries EXCEPT !["unread-count"].fetch =
                                      RunningFetch("unread-count")]
    /\ UNCHANGED <<wholesalerId, hookMounted, subscription, pendingEvents,
                   mutation>>
    /\ UNCHANGED notifVars

\* markAsRead: () => markAsReadMutation.mutate()
markAsRead ==
    /\ hookMounted
    /\ mutation = "idle"
    /\ mutation' = "pending"
    /\ UNCHANGED <<wholesalerId, hookMounted, subscription, pendingEvents,
                   queries>>
    /\ UNCHANGED notifVars

\* mutationFn: 0 without a wholesaler, else markAllOrdersAsRead.
mutationFn(answer) ==
    /\ mutation = "pending"
    /\ IF wholesalerId = "null"
          THEN /\ mutation' = "success"
               /\ UNCHANGED notifVars
          ELSE /\ markAllOrdersAsRead(wholesalerId, answer)
               /\ mutation' = IF answer = "error" THEN "error" ELSE "success"
    /\ UNCHANGED <<wholesalerId, hookMounted, subscription, pendingEvents,
                   queries>>

\* onSuccess: the count is logged, then
\* invalidateQueries({ queryKey: ["notifications", wholesalerId] })
onSuccess ==
    /\ mutation = "success"
    /\ mutation' = "idle"
    /\ queries' = invalidateQueries(<<"notifications", wholesalerId>>,
                                    wholesalerId, queries)
    /\ queryResult' = NoQuery
    /\ UNCHANGED <<wholesalerId, hookMounted, subscription, pendingEvents>>
    /\ UNCHANGED <<orders, clock>>

\* onError: the error is logged.
onError ==
    /\ mutation = "error"
    /\ mutation' = "idle"
    /\ queryResult' = NoQuery
    /\ UNCHANGED <<wholesalerId, hookMounted, subscription, pendingEvents,
                   queries>>
    /\ UNCHANGED <<orders, clock>>

\* The component leaves the page: the cleanup of the effect unsubscribes.
Unmount ==
    /\ hookMounted
    /\ hookMounted' = FALSE
    /\ subscription' = "none"
    /\ pendingEvents' = {}
    /\ UNCHANGED <<wholesalerId, queries, mutation>>
    /\ UNCHANGED notifVars

\* data: unreadCount = 0
unreadCount ==
    IF queries["unread-count"].data.defined
       THEN queries["unread-count"].data.value
       ELSE 0

\* What the hook returns.
HookReturn ==
    [unreadCount |-> unreadCount, hasNewNotifications |-> unreadCount > 0]

InitHook ==
    /\ wholesalerId = "null"
    /\ hookMounted = TRUE
    /\ subscription = "none"
    /\ pendingEvents = {}
    /\ queries = [q \in QueryNames |-> NewQuery(q)]
    /\ mutation = "idle"

NextHook ==
    \/ \E wid \in {"w1"} : WholesalerLoaded(wid)
    \/ \E w \in WholesalerIds : InsertOrder(w)
    \/ \E o \in NotifOrderIds : RealtimeEvent(o)
    \/ \E q \in QueryNames : FetchRead(q)
    \/ \E q \in QueryNames : FetchError(q)
    \/ \E q \in QueryNames : FetchSettle(q)
    \/ RefetchInterval
    \/ markAsRead
    \/ \E answer \in {"ok", "error"} : mutationFn(answer)
    \/ onSuccess
    \/ onError
    \/ Unmount

----------------------------------------------------------------------------
(* Specifications: one per subsystem *)

\* The server actions.
Init ==
    /\ InitActions /\ RoutesIdle /\ InitCodes /\ RolesIdle
    /\ InitNotif /\ InitCart /\ InitSignIn /\ InitHook
Next ==
    /\ NextActions
    /\ UNCHANGED <<routeVars, codeVars, roleVars, notifVars,
                   cartVars, signVars, hookVars>>
Spec == Init /\ [][Next]_vars

\* The dashboard routes.
InitR ==
    /\ InitActions /\ InitRoutes /\ InitCodes /\ RolesIdle
    /\ InitNotif /\ InitCart /\ InitSignIn /\ InitHook
NextR ==
    /\ NextRoutes
    /\ UNCHANGED <<actionVars, codeVars, roleVars, notifVars,
                   cartVars, signVars, hookVars>>
SpecRoutes == InitR /\ [][NextR]_vars

\* The inserts into public.wholesalers.
InitC ==
    /\ InitActions /\ RoutesIdle /\ InitCodes /\ RolesIdle
    /\ InitNotif /\ InitCart /\ InitSignIn /\ InitHook
NextC ==
    /\ NextCodes
    /\ UNCHANGED <<actionVars, routeVars, roleVars, notifVars,
                   cartVars, signVars, hookVars>>
SpecCodes == InitC /\ [][NextC]_vars

\* The writes to public.profiles and the role migration.
InitP ==
    /\ InitActions /\ RoutesIdle /\ InitCodes /\ InitRoles
    /\ InitNotif /\ InitCart /\ InitSignIn /\ InitHook
NextP ==
    /\ NextRoles
    /\ UNCHANGED <<actionVars, routeVars, codeVars, notifVars,
                   cartVars, signVars, hookVars>>
SpecRoles == InitP /\ [][NextP]_vars

\* The order notifications.
InitN ==
    /\ InitActions /\ RoutesIdle /\ InitCodes /\ RolesIdle
    /\ InitNotif /\ InitCart /\ InitSignIn /\ InitHook
NextN ==
    /\ NextNotif
    /\ UNCHANGED <<actionVars, routeVars, codeVars, roleVars,
                   cartVars, signVars, hookVars>>
SpecNotifications == InitN /\ [][NextN]_vars

\* The retailer cart.
InitK ==
    /\ InitActions /\ RoutesIdle /\ InitCodes /\ RolesIdle
    /\ InitNotif /\ InitCart /\ InitSignIn /\ InitHook
NextK ==
    /\ NextCart
    /\ UNCHANGED <<actionVars, routeVars, codeVars, roleVars,
                   notifVars, signVars, hookVars>>
SpecCart == InitK /\ [][NextK]_vars

\* The sign-in form.
InitS ==
    /\ InitActions /\ RoutesIdle /\ InitCodes /\ RolesIdle
    /\ InitNotif /\ InitCart /\ InitSignIn /\ InitHook
NextS ==
    /\ NextSignIn
    /\ UNCHANGED <<actionVars, routeVars, codeVars, roleVars,
                   notifVars, cartVars, hookVars>>
SpecSignIn == InitS /\ [][NextS]_vars

\* The notification hook and the orders it reads.
InitH ==
    /\ InitActions /\ RoutesIdle /\ InitCodes /\ RolesIdle
    /\ InitNotif /\ InitCart /\ InitSignIn /\ InitHook
NextH ==
    /\ NextHook
    /\ UNCHANGED <<actionVars, routeVars, codeVars, roleVars,
                   cartVars, signVars>>
SpecHook == InitH /\ [][NextH]_vars

\* The notification hook with its scheduling: an event sent is run, a
\* fetch in flight completes, the interval timer fires.
FairH ==
    LET Rest == UNCHANGED <<actionVars, routeVars, codeVars, roleVars,
                            cartVars, signVars>>
    IN /\ WF_vars((\E o \in NotifOrderIds : RealtimeEvent(o)) /\ Rest)
       /\ \A q \in QueryNames : SF_vars(FetchRead(q) /\ Rest)
       /\ \A q \in QueryNames : WF_vars(FetchSettle(q) /\ Rest)
       /\ WF_vars(RefetchInterval /\ Rest)
SpecHookFair == SpecHook /\ FairH

----------------------------------------------------------------------------
(* Properties of batchUpdateOrderStatus and of the settings actions *)

OkAttempts == {p \in 1..Len(attempts) : attempts[p].outcome = "ok"}
FailedAttempts == {p \in 1..Len(attempts) : attempts[p].outcome = "failed"}
LoopOver == call = "batch" /\ pc \in {"loop", "done"} /\ idx > Len(orderIds)

\* C1: once the per-order loop of a call with a non-empty list is over,
\* successCount + failureCount = orderIds.length, in the counters and in
\* the returned result, whatever updates failed and with duplicate ids
\* counted once per list entry.
C1_CountsCoverList ==
    (LoopOver /\ Len(orderIds) > 0) =>
        /\ successCount + failureCount = Len(orderIds)
        /\ (pc = "done" =>
               result.successCount + result.failureCount = Len(orderIds))

C1_Witness ==
    /\ call = "batch" /\ pc = "done"
    /\ Len(orderIds) = 3 /\ orderIds[1] = orderIds[3]
    /\ attempts[1].outcome = "ok" /\ attempts[2].outcome = "failed"
    /\ attempts[3].outcome = "ok"
    /\ result.successCount = 2 /\ result.failureCount = 1

\* C2: a failed update leaves the table as it was (the failed order keeps
\* its status), the loop goes on with the next entry, every entry has been
\* attempted when the loop is over, and every order updated by the call
\* holds the new status.
C2_StateOk ==
    call = "batch" =>
        /\ \A p \in OkAttempts : orderStatus[attempts[p].orderId] = status
        /\ (LoopOver => Len(attempts) = Len(orderIds))

C2_FailureStep ==
    (pc = "await" /\ failureCount' = failureCount + 1) =>
        /\ orderStatus' = orderStatus
        /\ pc' = "loop"
        /\ idx' = idx + 1
        /\ successCount' = successCount

C2_FailureIsLocal == []C2_StateOk /\ [][C2_FailureStep]_vars

C2_Witness ==
    /\ call = "batch" /\ pc = "done"
    /\ Len(attempts) = 3
    /\ attempts[1].outcome = "ok" /\ attempts[2].outcome = "failed"
    /\ attempts[3].outcome = "ok"
    /\ attempts[2].orderId # attempts[1].orderId
    /\ orderStatus[attempts[1].orderId] = status
    /\ orderStatus[attempts[2].orderId] # status

\* C3: the updates are issued in list order, one entry at a time (only the
\* last issued update can still be in flight), each entry once.
C3_SequentialOnce ==
    call = "batch" =>
        /\ Len(attempts) <= Len(orderIds)
        /\ \A p \in 1..Len(attempts) :
              /\ attempts[p].pos = p
              /\ attempts[p].orderId = orderIds[p]
              /\ (p < Len(attempts) => attempts[p].outcome # "inflight")
        /\ (pc = "await" <=> (Len(attempts) > 0 /\
                               attempts[Len(attempts)].outcome = "inflight"))
        /\ (LoopOver => Len(attempts) = Len(orderIds))

C3_Witness ==
    /\ call = "batch" /\ pc = "await"
    /\ Len(attempts) = 3
    /\ attempts[1].outcome = "failed" /\ attempts[2].outcome = "failed"
    /\ attempts[1].orderId = attempts[2].orderId

\* C4 (as claimed): in every completion path the returned successCount is
\* the number of updates that succeeded and the returned failureCount the
\* number of updates that failed.
C4_ReturnedCountsAreActual ==
    (call = "batch" /\ pc = "done") =>
        /\ result.successCount = Cardinality(OkAttempts)
        /\ result.failureCount = Cardinality(FailedAttempts)

\* What went wrong in the finished call, read from the calls it made.
CallFailed ==
    CASE call = "batch" ->
           FailedAttempts # {} \/ env.revalidate = "throw"
      [] call = "email" ->
           \/ env.auth \in {"null", "throw"}
           \/ env.getUser \in {"null", "throw"}
           \/ env.serviceClient = "throw"
           \/ env.update \in {"error", "throw"}
      [] OTHER ->
           \/ env.profile # "wholesaler"
           \/ env.serviceClient = "throw"
           \/ env.fetch \in {"error", "no_row", "throw"}
           \/ env.update \in {"error", "throw"}

\* The database update(s) of the finished call returned without error.
DbUpdateReturnedOk ==
    IF call = "batch"
       THEN /\ Len(orderIds) > 0
            /\ \A p \in 1..Len(orderIds) :
                  p \in DOMAIN attempts /\ attempts[p].outcome = "ok"
       ELSE env.update = "ok"

\* The result carries a non-empty error (for the batch: a non-empty errors
\* list of non-empty texts).
ErrorReported ==
    IF call = "batch"
       THEN /\ result.errorsDefined
            /\ Len(result.errors) > 0
            /\ \A i \in 1..Len(result.errors) : result.errors[i].error # ""
       ELSE result.errorDefined /\ result.error # ""

----------------------------------------------------------------------------
(* Properties of the dashboard routes *)

\* C5 (as claimed): a failed query yields status 500 and a body of exactly
\* the two fields error and message on each of the three routes.
C5_ExactlyErrorAndMessage ==
    \A r \in Routes :
        (responses[r].kind = "response" /\ responses[r].status # 200) =>
            /\ responses[r].status = 500
            /\ responses[r].fields = {"error", "message"}

\* C5 (amended): every GET ends in a response; a failed query yields
\* status 500 and a body with the fields error and message and nothing
\* else, except that recent-orders adds the field stack exactly when
\* NODE_ENV is "development" and the thrown value is an Error with a
\* stack; outside development the three routes answer in the same shape.
C5_ErrorShape ==
    \A r \in Routes :
        /\ responses[r].kind \in {"none", "response"}
        /\ (responses[r].kind = "response" /\ responses[r].status # 200) =>
              /\ responses[r].status = 500
              /\ {"error", "message"} \subseteq responses[r].fields
              /\ responses[r].fields \subseteq {"error", "message", "stack"}
              /\ ("stack" \in responses[r].fields <=>
                     /\ r = "recent-orders"
                     /\ nodeEnv = "development"
                     /\ responses[r].cause.isError
                     /\ responses[r].cause.hasStack)
              /\ responses[r].message # ""

C5_Witness ==
    /\ nodeEnv = "development"
    /\ \A r \in Routes :
          /\ responses[r].kind = "response"
          /\ responses[r].status = 500
          /\ responses[r].cause.isError /\ responses[r].cause.hasStack
    /\ responses["recent-orders"].fields = {"error", "message", "stack"}
    /\ responses["low-stock"].fields = {"error", "message"}
    /\ responses["stats"].fields = {"error", "message"}

----------------------------------------------------------------------------
(* Properties of the anonymous-code trigger *)

\* The trigger function of transaction t assigns new.anonymous_code in
\* this step.
Generates(t) == txn[t].pc = "locked" /\ txn'[t].pc = "triggered"

\* The codes the trigger has assigned in the other transactions in flight.
PendingCodes(t) ==
    {txn[u].code : u \in {v \in Txns \ {t} : txn[v].generated}}

\* C7 (as claimed): a code the trigger assigns is the code of no other row,
\* neither of a committed row nor of a row the trigger is generating in a
\* concurrent transaction.
C7_GeneratedCodeIsFresh ==
    [][\A t \in Txns :
          Generates(t) =>
              /\ txn'[t].code \notin CommittedCodes
              /\ txn'[t].code \notin PendingCodes(t)]_vars

\* The largest number among the VENDOR-<digits> codes, 0 without one.
MaxVendorNumber(codes) ==
    LET ns == {DigitsValue(c.digits) : c \in {x \in codes : x.vendor}}
    IN IF ns = {} THEN 0 ELSE CHOOSE m \in ns : \A o \in ns : o <= m

\* C8 (as claimed): the generated code is VENDOR- followed by the largest
\* existing number plus one, zero-padded to at least 3 digits (VENDOR-001
\* when there is none).
C8_SequentialCode ==
    [][\A t \in Txns :
          Generates(t) =>
              txn'[t].code =
                  Vendor(lpad_NoTruncate(
                      ToDigits(MaxVendorNumber(CommittedCodes) + 1), PadWidth))]_vars

----------------------------------------------------------------------------
(* Properties of profiles.role *)

\* C9: once the migration has been applied, every stored role is NULL or
\* one of the three roles, the constraint is in place (also after a second
\* run), and a write of another value is rejected and changes no row.
C9_StateOk ==
    migrated > 0 =>
        /\ \A id \in ProfileIds :
              profiles[id] \in ValidRoles \cup {"NULL", "absent"}
        /\ roleCheck = "new"
        /\ ~roleNotNull

C9_RejectStep ==
    (migrated > 0 /\ lastWrite' # lastWrite
       /\ lastWrite'.role \notin ValidRoles \cup {"NULL"}) =>
        /\ ~lastWrite'.accepted
        /\ profiles' = profiles

C9_RoleConstraint == []C9_StateOk /\ [][C9_RejectStep]_vars

C9_Witness ==
    /\ migrated = 2
    /\ profiles["p1"] = "NULL"
    /\ profiles["p2"] = "admin"
    /\ lastWrite = [op |-> "update", id |-> "p2", role |-> "seller",
                    accepted |-> FALSE]

----------------------------------------------------------------------------
(* Properties of the notification queries *)

\* The query of this step is a getUnreadOrdersCount that returns.
CountReturns ==
    /\ queryResult' # queryResult
    /\ queryResult'.op = "count"
    /\ queryResult'.kind = "returned"

\* C10: getUnreadOrdersCount(wholesalerId) returns the number of orders
\* with that wholesaler_id whose wholesaler_read_at is NULL, and an order
\* enters the table with wholesaler_read_at NULL.
C10_CountStep ==
    /\ CountReturns =>
          queryResult'.value =
              Cardinality({o \in NotifOrderIds :
                  /\ orders[o].present
                  /\ orders[o].wholesaler_id = queryResult'.wholesalerId
                  /\ orders[o].wholesaler_read_at = NullTime})
    /\ \A o \in NotifOrderIds :
          (~orders[o].present /\ orders'[o].present) =>
              orders'[o].wholesaler_read_at = NullTime

C10_UnreadCount == [][C10_CountStep]_vars

C10_Witness ==
    /\ queryResult = [op |-> "count", wholesalerId |-> "w1",
                      kind |-> "returned", value |-> 1]
    /\ orders["n1"].present /\ orders["n1"].wholesaler_id = "w1"
    /\ orders["n1"].wholesaler_read_at > NullTime
    /\ orders["n2"].present /\ orders["n2"].wholesaler_id = "w1"
    /\ orders["n2"].wholesaler_read_at = NullTime
    /\ orders["n3"].present /\ orders["n3"].wholesaler_id = "w2"
    /\ orders["n3"].wholesaler_read_at = NullTime

\* The unread orders of wholesaler w, written out.
UnreadOf(tbl, w) ==
    {o \in NotifOrderIds :
        /\ tbl[o].present
        /\ tbl[o].wholesaler_id = w
        /\ tbl[o].wholesaler_read_at = NullTime}

\* This step is a markAllOrdersAsRead(w) that returns (a step that creates
\* an order is told apart by the new row).
MarkReturns(w) ==
    /\ queryResult'.op = "mark"
    /\ queryResult'.wholesalerId = w
    /\ queryResult'.kind = "returned"
    /\ \/ queryResult' # queryResult
       \/ /\ orders' # orders
          /\ \A o \in NotifOrderIds : orders'[o].present = orders[o].present

\* This step creates an order of wholesaler w.
CreatesFor(w) ==
    \E o \in NotifOrderIds :
        ~orders[o].present /\ orders'[o].present /\ orders'[o].wholesaler_id = w

\* C11: markAllOrdersAsRead(w) stamps every order of w that is unread with
\* a non-NULL time, touches no other row and returns how many it stamped;
\* afterwards w has no unread order, this stays so until an order of w is
\* created, and as long as it is so getUnreadOrdersCount(w) returns 0 and
\* markAllOrdersAsRead(w) returns 0 and changes no row.
C11_MarkStep ==
    \A w \in WholesalerIds :
        /\ MarkReturns(w) =>
              /\ \A o \in NotifOrderIds :
                    IF o \in UnreadOf(orders, w)
                       THEN /\ orders'[o].wholesaler_read_at # NullTime
                            /\ orders'[o].wholesaler_id = w
                            /\ orders'[o].present
                       ELSE orders'[o] = orders[o]
              /\ queryResult'.value = Cardinality(UnreadOf(orders, w))
              /\ UnreadOf(orders', w) = {}
        /\ (UnreadOf(orders, w) = {} /\ ~CreatesFor(w)) =>
              UnreadOf(orders', w) = {}
        /\ (UnreadOf(orders, w) = {} /\ CountReturns
               /\ queryResult'.wholesalerId = w) =>
              queryResult'.value = 0
        /\ (UnreadOf(orders, w) = {} /\ MarkReturns(w)) =>
              (queryResult'.value = 0 /\ orders' = orders)

C11_MarkAllRead == [][C11_MarkStep]_vars

C11_Witness ==
    /\ queryResult = [op |-> "mark", wholesalerId |-> "w1",
                      kind |-> "returned", value |-> 2]
    /\ orders["n1"].present /\ orders["n1"].wholesaler_id = "w1"
    /\ orders["n1"].wholesaler_read_at = clock
    /\ orders["n2"].present /\ orders["n2"].wholesaler_id = "w1"
    /\ orders["n2"].wholesaler_read_at = clock
    /\ orders["n3"].present /\ orders["n3"].wholesaler_id = "w2"
    /\ orders["n3"].wholesaler_read_at = NullTime

----------------------------------------------------------------------------
(* Properties of the retailer cart *)

\* This step is an addToCart.
AddStep ==
    /\ lastCartOp'.op = "add"
    /\ (lastCartOp' # lastCartOp \/ items' # items)

\* The cart lines holding the product and variant of input.
LinesOf(its, input) ==
    {i \in 1..Len(its) :
        its[i].product_id = input.product_id /\ its[i].variant_id = input.variant_id}

\* C12: addToCart on a cart that holds the product and variant of the input
\* keeps the number of lines, adds input.quantity to that line, keeps its
\* id and gives it the input's unit_price, delivery_method, moq and
\* stock_quantity; otherwise it appends exactly one line built from the
\* input and leaves the lines that were there as they were.
C12_AddStep ==
    AddStep =>
        LET input == lastCartOp'.input
            held == LinesOf(items, input)
        IN IF held # {}
              THEN /\ Len(items') = Len(items)
                   /\ \E k \in held :
                        /\ items'[k].quantity = items[k].quantity + input.quantity
                        /\ items'[k].id = items[k].id
                        /\ items'[k].unit_price = input.unit_price
                        /\ items'[k].delivery_method = input.delivery_method
                        /\ items'[k].moq = input.moq
                        /\ items'[k].stock_quantity = input.stock_quantity
                        /\ \A j \in (1..Len(items)) \ {k} : items'[j] = items[j]
              ELSE /\ Len(items') = Len(items) + 1
                   /\ \A j \in 1..Len(items) : items'[j] = items[j]
                   /\ LET new == items'[Len(items')]
                      IN /\ new.product_id = input.product_id
                         /\ new.variant_id = input.variant_id
                         /\ new.quantity = input.quantity
                         /\ new.unit_price = input.unit_price

C12_AddToCart == [][C12_AddStep]_vars

C12_Witness ==
    /\ lastCartOp.op = "add"
    /\ lastCartOp.input.unit_price = 120
    /\ Len(items) = 2
    /\ items[1].product_id = "pA" /\ items[1].variant_id = "null"
    /\ items[1].quantity = 3 /\ items[1].unit_price = 120
    /\ items[1].moq = 2 /\ items[1].product_name = "Apple"
    /\ items[2].variant_id = "v1" /\ items[2].quantity = 1

\* The sum of unit_price * quantity over the lines with index in I.
RECURSIVE SumLines(_, _)
SumLines(its, I) ==
    IF I = {} THEN 0
    ELSE LET i == CHOOSE x \in I : TRUE
         IN its[i].unit_price * its[i].quantity + SumLines(its, I \ {i})

\* What the claim says getSummary returns for the lines its.
ClaimedSummary(its) ==
    [totalProductPrice |-> SumLines(its, DOMAIN its),
     totalPrice |-> SumLines(its, DOMAIN its),
     itemCount |-> Cardinality(DOMAIN its)]

\* C13: in every cart the four actions can produce, getSummary returns the
\* sum of unit_price * quantity over the lines as totalProductPrice and as
\* totalPrice, and the number of lines as itemCount; all three are 0 for
\* the empty cart.
C13_SummaryOk ==
    /\ getSummary(items) = ClaimedSummary(items)
    /\ (items = <<>> =>
          getSummary(items) =
              [totalProductPrice |-> 0, totalPrice |-> 0, itemCount |-> 0])

----------------------------------------------------------------------------
(* Further properties of the settings actions and of batchUpdateOrderStatus *)

\* C14 (as claimed): updateEmail does not itself change the stored
\* profiles.email; the address changes only with the later verification of
\* the new address, which is no part of the action.
C14_EmailWaitsForVerification ==
    [][(pc = "idle" /\ call' = "email") => profileEmail' = profileEmail]_vars

\* The entries of attempts whose update failed, in the order of the list.
FailedInOrder == SelectSeq(attempts, LAMBDA a : a.outcome = "failed")

\* C16 (as claimed): the returned success is true exactly when the list is
\* not empty and every update succeeded; for a list that is not empty,
\* errors holds one entry per failed update, with the id of its order, in
\* list order, and is absent when no update failed.
C16_SuccessAndErrors ==
    (call = "batch" /\ pc = "done") =>
        /\ result.success <=>
              (Len(orderIds) > 0 /\ Cardinality(OkAttempts) = Len(orderIds))
        /\ (Len(orderIds) > 0 =>
              (result.errorsDefined <=> (FailedAttempts # {})))
        /\ ((Len(orderIds) > 0 /\ result.errorsDefined) =>
              /\ Len(result.errors) = Len(FailedInOrder)
              /\ \A i \in 1..Len(FailedInOrder) :
                    result.errors[i].orderId = FailedInOrder[i].orderId)

----------------------------------------------------------------------------
(* Properties of SignInWithRedirect *)

ShowsAccountNotFound(d) == \E i \in 1..Len(d) : d[i].kind = "account_not_found"

\* C15: the component navigates only to redirectToSignUpUrl and only while
\* the form shows an account-not-found error; with a password error or
\* another error alone it does not navigate; and a check leaves what the
\* form shows as it is.
C15_CheckStep ==
    (mounted /\ mounted') =>
        /\ (location' # location =>
              /\ location' = "redirectToSignUpUrl"
              /\ ShowsAccountNotFound(dom)
              /\ dom' = dom)
        /\ (hasRedirectedRef' # hasRedirectedRef => dom' = dom)
        /\ ((dom' = dom /\ ~ShowsAccountNotFound(dom)) => location' = location)

----------------------------------------------------------------------------
(* Properties of useWholesalerNotifications *)

\* The number of unread orders of the hook's wholesaler in the table.
UnreadInDatabase == Cardinality(UnreadRowsOf(orders, wholesalerId))

\* This step is onSuccess of the markAsRead mutation.
MarkSucceeds == mutation = "success" /\ mutation' = "idle"

\* C17 (as claimed): when the markAsRead mutation of a wholesaler succeeds,
\* the unread-count query and the recent-orders query are both invalidated
\* and, in a mounted component, both start a refetch.
C17_MarkStep ==
    (MarkSucceeds /\ wholesalerId # "null") =>
        \A q \in QueryNames :
            /\ queries'[q].isInvalidated
            /\ (hookMounted => queries'[q].fetch = RunningFetch(q))

C17_MarkInvalidatesBoth == [][C17_MarkStep]_vars

\* This step runs the subscription's callback for one event.
EventRuns ==
    /\ hookMounted /\ hookMounted'
    /\ \E o \in pendingEvents : pendingEvents' = pendingEvents \ {o}

C18_EventStep ==
    EventRuns =>
        \A q \in QueryNames :
            /\ queries'[q].isInvalidated
            /\ queries'[q].fetch = RunningFetch(q)

C18_ReturnOk ==
    /\ HookReturn.unreadCount = unreadCount
    /\ HookReturn.hasNewNotifications <=> (HookReturn.unreadCount > 0)

C18_Eventually ==
    (hookMounted /\ pendingEvents # {}) ~>
        \/ ~hookMounted
        \/ /\ unreadCount = UnreadInDatabase
           /\ ~queries["unread-count"].isInvalidated

\* C18: in a mounted hook with a wholesaler, the callback of every
\* new-order event invalidates the unread-count query and the
\* recent-orders query and starts their refetch; with the fetches
\* completing, an event sent to the hook is followed by a state in which
\* unreadCount is the number of unread orders in the table (or the hook
\* is unmounted); hasNewNotifications is unreadCount > 0.
C18_RealtimeRefresh ==
    /\ [][C18_EventStep]_vars
    /\ []C18_ReturnOk
    /\ C18_Eventually

C18_Witness ==
    /\ hookMounted
    /\ wholesalerId = "w1"
    /\ pendingEvents = {}
    /\ UnreadInDatabase = 2
    /\ unreadCount = 2
    /\ HookReturn.hasNewNotifications
    /\ \A q \in QueryNames :
          ~queries[q].isInvalidated /\ queries[q].fetch = IdleFetch(q)
    /\ Cardinality(queries["recent-orders"].data.value) = 2

====
